---------------------------- MODULE Spec2Model ----------------------------
(***************************************************************************)
(* github-activity (src/main.py): one GET of a user's public events, then  *)
(* one formatter per event record, dispatched on the record's "type".      *)
(*                                                                         *)
(* Python values are tagged records; a Python str is the tuple of its      *)
(* characters, so that slicing, capitalize() and the equality of two       *)
(* printed texts are computed character by character.  An exception in     *)
(* flight is the value Raise(cls, msg): every operation that receives one  *)
(* as an operand passes it on, as the Python expression would.             *)
(*                                                                         *)
(* The run starts where parse_args() has returned the username.  main.py   *)
(* is Python 3.12 source (the nested quotes of line 181), and exceptions   *)
(* carry the messages of that version.                                     *)
(***************************************************************************)
EXTENDS Integers, Sequences, FiniteSets, TLC

VARIABLES username, feed, pc, net, events, i, output, exitCode, stderr, netCalls

vars == <<username, feed, pc, net, events, i, output, exitCode, stderr, netCalls>>

---------------------------------------------------------------------------
(* Bounds of the model *)

\* longest event list the server returns in the multi-record feeds
MaxEvents == 2
\* most entries of payload.commits in a PushEvent
MaxCommits == 2
\* most entries of payload.pages in a GollumEvent
MaxPages == 2
\* longest action verb drawn from ActionChars
MaxActionLen == 2

---------------------------------------------------------------------------
(* Python values *)

PyNone == [t |-> "none"]

PyStr(s) == [t |-> "str", v |-> s]

PyInt(n) == [t |-> "int", v |-> n]

PyList(l) == [t |-> "list", v |-> l]

PyDict(f) == [t |-> "dict", v |-> f]

PyFunc(name) == [t |-> "func", v |-> name]

Raise(cls, msg) == [t |-> "raise", cls |-> cls, v |-> msg]

IsRaise(x) == x.t = "raise"

\* "no exception": the value of a statement that completed
NoExc == [t |-> "noexc"]

\* a key that is not in a dict literal (used only to build dicts)
Absent == [t |-> "absent"]

EmptyDict == PyDict(<<>>)

EmptyList == PyList(<<>>)

\* {k1: v1, ...} from <<key, value>> pairs; a pair whose value is Absent is left out
Dict(pairs) ==
    LET present == {k \in 1..Len(pairs) : pairs[k][2].t # "absent"}
        keys == {pairs[k][1] : k \in present}
    IN PyDict([key \in keys |->
                 pairs[CHOOSE k \in present : pairs[k][1] = key][2]])

Min(S) == CHOOSE m \in S : \A n \in S : m <= n

RECURSIVE Join(_)
Join(ss) == IF ss = <<>> THEN <<>> ELSE Head(ss) \o Join(Tail(ss))

Take(s, n) == SubSeq(s, 1, IF Len(s) < n THEN Len(s) ELSE n)

Lowers == <<"a", "b", "c", "d", "e", "f", "g", "h", "i", "j", "k", "l", "m",
            "n", "o", "p", "q", "r", "s", "t", "u", "v", "w", "x", "y", "z">>

Uppers == <<"A", "B", "C", "D", "E", "F", "G", "H", "I", "J", "K", "L", "M",
            "N", "O", "P", "Q", "R", "S", "T", "U", "V", "W", "X", "Y", "Z">>

Upper(c) ==
    IF \E k \in 1..Len(Lowers) : Lowers[k] = c
    THEN Uppers[CHOOSE k \in 1..Len(Lowers) : Lowers[k] = c]
    ELSE c

Lower(c) ==
    IF \E k \in 1..Len(Uppers) : Uppers[k] = c
    THEN Lowers[CHOOSE k \in 1..Len(Uppers) : Uppers[k] = c]
    ELSE c

Digits == <<"0", "1", "2", "3", "4", "5", "6", "7", "8", "9">>

\* str(n) of a non-negative int
RECURSIVE IntStr(_)
IntStr(n) ==
    IF n < 10 THEN <<Digits[n + 1]>>
    ELSE IntStr(n \div 10) \o <<Digits[(n % 10) + 1]>>

TypeName(x) ==
    CASE x.t = "none" -> <<"N", "o", "n", "e", "T", "y", "p", "e">>
      [] x.t = "str"  -> <<"s", "t", "r">>
      [] x.t = "int"  -> <<"i", "n", "t">>
      [] x.t = "list" -> <<"l", "i", "s", "t">>
      [] x.t = "dict" -> <<"d", "i", "c", "t">>

AttributeError(x, attr) ==
    Raise("AttributeError",
          <<"'">> \o TypeName(x) \o <<"'", " ", "o", "b", "j", "e", "c", "t", " ", "h", "a", "s", " ", "n", "o", " ", "a", "t", "t", "r", "i", "b", "u", "t", "e", " ", "'">> \o attr \o <<"'">>)

\* d.get(key, default)
Get(d, key, default) ==
    IF IsRaise(d) THEN d
    ELSE IF d.t = "dict"
         THEN IF key \in DOMAIN d.v THEN d.v[key] ELSE default
         ELSE AttributeError(d, <<"g", "e", "t">>)

\* d.get(key): the default is None
Get1(d, key) == Get(d, key, PyNone)

\* x[:n]
Slice(x, n) ==
    IF IsRaise(x) THEN x
    ELSE CASE x.t = "str"  -> PyStr(Take(x.v, n))
           [] x.t = "list" -> PyList(Take(x.v, n))
           [] x.t = "none" ->
                Raise("TypeError", <<"'", "N", "o", "n", "e", "T", "y", "p", "e", "'", " ", "o", "b", "j", "e", "c", "t", " ", "i", "s", " ", "n", "o", "t", " ", "s", "u", "b", "s", "c", "r", "i", "p", "t", "a", "b", "l", "e">>)
           [] x.t = "int"  ->
                Raise("TypeError", <<"'", "i", "n", "t", "'", " ", "o", "b", "j", "e", "c", "t", " ", "i", "s", " ", "n", "o", "t", " ", "s", "u", "b", "s", "c", "r", "i", "p", "t", "a", "b", "l", "e">>)
           [] x.t = "dict" ->
                Raise("KeyError", <<"s", "l", "i", "c", "e", "(", "N", "o", "n", "e", ",", " ">> \o IntStr(n) \o <<",", " ", "N", "o", "n", "e", ")">>)

\* Variant of Capitalize that leaves the characters after the first as they
\* are (what s[:1].upper() + s[1:] would give).
Capitalize_FirstOnly(x) ==
    IF IsRaise(x) THEN x
    ELSE IF x.t = "str"
         THEN PyStr([k \in 1..Len(x.v) |->
                       IF k = 1 THEN Upper(x.v[k]) ELSE x.v[k]])
         ELSE AttributeError(x, <<"c", "a", "p", "i", "t", "a", "l", "i", "z", "e">>)

\* s.capitalize(): first character upper-cased, all the others lower-cased
Capitalize(x) ==
    IF IsRaise(x) THEN x
    ELSE IF x.t = "str"
         THEN PyStr([k \in 1..Len(x.v) |->
                       IF k = 1 THEN Upper(x.v[k]) ELSE Lower(x.v[k])])
         ELSE AttributeError(x, <<"c", "a", "p", "i", "t", "a", "l", "i", "z", "e">>)

\* len(x)
PyLen(x) ==
    IF IsRaise(x) THEN x
    ELSE CASE x.t \in {"str", "list"} -> PyInt(Len(x.v))
           [] x.t = "dict" -> PyInt(Cardinality(DOMAIN x.v))
           [] x.t \in {"none", "int"} ->
                Raise("TypeError",
                      <<"o", "b", "j", "e", "c", "t", " ", "o", "f", " ", "t", "y", "p", "e", " ", "'">> \o TypeName(x) \o <<"'", " ", "h", "a", "s", " ", "n", "o", " ", "l", "e", "n", "(", ")">>)

\* the keys of a dict as str values, one after the other (a key is kept as
\* one unit of text; nothing in the program reads inside a key it iterates)
RECURSIVE KeySeq(_)
KeySeq(S) ==
    IF S = {} THEN <<>>
    ELSE LET k == CHOOSE x \in S : TRUE
         IN <<PyStr(<<k>>)>> \o KeySeq(S \ {k})

\* iter(x): the items a for loop visits, or the TypeError it raises
Iter(x) ==
    CASE x.t = "list" -> x
      [] x.t = "str"  -> PyList([k \in 1..Len(x.v) |-> PyStr(<<x.v[k]>>)])
      [] x.t = "dict" -> PyList(KeySeq(DOMAIN x.v))
      [] x.t \in {"none", "int"} ->
           Raise("TypeError", <<"'">> \o TypeName(x) \o <<"'", " ", "o", "b", "j", "e", "c", "t", " ", "i", "s", " ", "n", "o", "t", " ", "i", "t", "e", "r", "a", "b", "l", "e">>)

\* x == "literal"
PyEq(x, lit) == x.t = "str" /\ x.v = lit

\* bool(x)
Truthy(x) ==
    CASE x.t = "none" -> FALSE
      [] x.t \in {"str", "list"} -> x.v # <<>>
      [] x.t = "dict" -> DOMAIN x.v # {}
      [] x.t = "int" -> x.v # 0

\* hash(x), as a dict lookup by key needs it
Hashable(x) ==
    IF IsRaise(x) THEN x
    ELSE IF x.t \in {"list", "dict"}
         THEN Raise("TypeError", <<"u", "n", "h", "a", "s", "h", "a", "b", "l", "e", " ", "t", "y", "p", "e", ":", " ", "'">> \o TypeName(x) \o <<"'">>)
         ELSE x

\* f"{x}" of the values the formatters print
Str(x) ==
    CASE x.t = "str"  -> x.v
      [] x.t = "none" -> <<"N", "o", "n", "e">>
      [] x.t = "int"  -> IntStr(x.v)

FirstRaise(xs) ==
    LET idx == {k \in 1..Len(xs) : IsRaise(xs[k])}
    IN IF idx = {} THEN NoExc ELSE xs[Min(idx)]

\* The statements of a handler in source order, then print(f"...") of the
\* parts: the first exception ends the handler before anything is printed.
Run(stmts, parts) ==
    LET e == FirstRaise(stmts \o parts)
    IN IF IsRaise(e)
       THEN [lines |-> <<>>, exc |-> e]
       ELSE [lines |-> <<Join([k \in 1..Len(parts) |-> Str(parts[k])])>>,
             exc |-> NoExc]

---------------------------------------------------------------------------
(* The formatters.  Each returns [lines, exc]: the lines it printed, and  *)
(* the exception that left it (NoExc when it returned).                    *)

\* event.get('repo', {}).get('name', "Unknown")
RepoName(event) ==
    Get(Get(event, "repo", EmptyDict), "name", PyStr(<<"U", "n", "k", "n", "o", "w", "n">>))

\* event.get("payload", {})
Payload(event) == Get(event, "payload", EmptyDict)

\* event.get("payload", {}).get("action", "")
Action(event) == Get(Payload(event), "action", PyStr(<<>>))

\* - Commented on commit {commit_id[:7]} in {repo}: {comment_text[:50]}
handle_commit_comment_event(event) ==
    LET repo == RepoName(event)
        commit_id == Get(Get(Payload(event), "comment", EmptyDict),
                         "commit_id", PyStr(<<"U", "n", "k", "n", "o", "w", "n">>))
        comment_text == Get(Get(Payload(event), "comment", EmptyDict),
                            "body", PyStr(<<"N", "o", " ", "C", "o", "m", "m", "e", "n", "t">>))
    IN Run(<<repo, commit_id, comment_text>>,
           <<PyStr(<<"-", " ", "C", "o", "m", "m", "e", "n", "t", "e", "d", " ", "o", "n", " ", "c", "o", "m", "m", "i", "t", " ">>), Slice(commit_id, 7),
             PyStr(<<" ", "i", "n", " ">>), repo, PyStr(<<":", " ">>), Slice(comment_text, 50)>>)

\* event.get("payload") has no default: a missing payload is None
handle_create_event(event) ==
    LET repo == RepoName(event)
        ref_type == Get1(Get1(event, "payload"), "ref_type")
        ref == Get1(Get1(event, "payload"), "ref")
    IN IF IsRaise(FirstRaise(<<repo, ref_type, ref>>))
       THEN Run(<<repo, ref_type, ref>>, <<>>)
       ELSE IF PyEq(ref_type, <<"r", "e", "p", "o", "s", "i", "t", "o", "r", "y">>)
       THEN Run(<<>>, <<PyStr(<<"-", " ", "C", "r", "e", "a", "t", "e", "d", " ", "r", "e", "p", "o", ":", " ">>), repo>>)
       ELSE IF (PyEq(ref_type, <<"b", "r", "a", "n", "c", "h">>) \/ PyEq(ref_type, <<"t", "a", "g">>)) /\ Truthy(ref)
       THEN Run(<<>>, <<PyStr(<<"-", " ", "C", "r", "e", "a", "t", "e", "d", " ">>), ref_type, PyStr(<<" ", "'">>), ref,
                        PyStr(<<"'", " ", "i", "n", " ">>), repo>>)
       ELSE Run(<<>>, <<PyStr(<<"-", " ", "C", "r", "e", "a", "t", "e", "d", " ">>), ref_type, PyStr(<<" ", "i", "n", " ">>), repo>>)

handle_delete_event(event) ==
    LET repo == RepoName(event)
        ref_type == Get1(Get1(event, "payload"), "ref_type")
    IN IF IsRaise(FirstRaise(<<repo, ref_type>>))
       THEN Run(<<repo, ref_type>>, <<>>)
       ELSE IF PyEq(ref_type, <<"r", "e", "p", "o", "s", "i", "t", "o", "r", "y">>)
       THEN Run(<<>>, <<PyStr(<<"-", " ", "D", "e", "l", "e", "t", "e", "d", " ", "r", "e", "p", "o", ":", " ">>), repo>>)
       ELSE Run(<<>>, <<PyStr(<<"-", " ", "D", "e", "l", "e", "t", "e", "d", " ">>), ref_type, PyStr(<<" ", "i", "n", " ">>), repo>>)

handle_fork_event(event) ==
    LET repo == RepoName(event)
    IN Run(<<repo>>, <<PyStr(<<"-", " ", "F", "o", "r", "k", "e", "d", " ", "r", "e", "p", "o", " ">>), repo>>)

\* One page of the loop: a print for a dict, nothing for anything else.
GollumPage(page) ==
    IF page.t = "dict"
    THEN LET page_title == Get(page, "title", PyStr(<<"U", "n", "k", "n", "o", "w", "n">>))
             page_action == Get(page, "action", PyStr(<<"U", "n", "k", "n", "o", "w", "n">>))
         IN Run(<<page_title, page_action>>,
                <<PyStr(<<"-", " ">>), Capitalize(page_action),
                  PyStr(<<" ", "w", "i", "k", "i", " ", "p", "a", "g", "e", " ", "'">>), page_title, PyStr(<<"'">>)>>)
    ELSE [lines |-> <<>>, exc |-> NoExc]

\* for page in pages: the loop stops at the first exception
RECURSIVE GollumLoop(_)
GollumLoop(pages) ==
    IF pages = <<>> THEN [lines |-> <<>>, exc |-> NoExc]
    ELSE LET r == GollumPage(Head(pages))
         IN IF IsRaise(r.exc) THEN r
            ELSE LET rest == GollumLoop(Tail(pages))
                 IN [lines |-> r.lines \o rest.lines, exc |-> rest.exc]

\* the body of the try block
GollumTry(event) ==
    LET pages == Get(Payload(event), "pages", EmptyList)
        it == IF IsRaise(pages) THEN pages ELSE Iter(pages)
    IN IF IsRaise(it) THEN [lines |-> <<>>, exc |-> it] ELSE GollumLoop(it.v)

\* Variant of handle_gollum_event without the except clause: an exception
\* of the try block leaves the handler.
handle_gollum_event_NoExcept(event) == GollumTry(event)

\* except Exception as err: print(f"- Could not process wiki event: {err}")
handle_gollum_event(event) ==
    LET r == GollumTry(event)
    IN IF IsRaise(r.exc)
       THEN [lines |-> Append(r.lines,
                              <<"-", " ", "C", "o", "u", "l", "d", " ", "n", "o", "t", " ", "p", "r", "o", "c", "e", "s", "s", " ", "w", "i", "k", "i", " ", "e", "v", "e", "n", "t", ":", " ">> \o r.exc.v),
             exc |-> NoExc]
       ELSE r

\* .get("issue", "") defaults to a str, which has no get
handle_issue_comment_event(event) ==
    LET repo == RepoName(event)
        action == Action(event)
        issue_title == Get(Get(Payload(event), "issue", PyStr(<<>>)),
                           "title", PyStr(<<>>))
        comment_body == Slice(Get(Get(Payload(event), "comment", EmptyDict),
                                  "body", PyStr(<<>>)), 50)
    IN Run(<<repo, action, issue_title, comment_body>>,
           <<PyStr(<<"-", " ">>), Capitalize(action), PyStr(<<" ", "c", "o", "m", "m", "e", "n", "t", " ", "'">>),
             issue_title, PyStr(<<"'", " ", "i", "n", " ">>), repo, PyStr(<<":", " ">>), comment_body>>)

\* .get("issue", "unknown") defaults to a str, which has no get
handle_issues_event(event) ==
    LET repo == RepoName(event)
        action == Action(event)
        issue == Get(Get(Payload(event), "issue", PyStr(<<"u", "n", "k", "n", "o", "w", "n">>)),
                     "title", PyStr(<<>>))
    IN Run(<<repo, action, issue>>,
           <<PyStr(<<"-", " ">>), Capitalize(action), PyStr(<<" ", "i", "s", "s", "u", "e", " ", "i", "n", " ">>), repo,
             PyStr(<<":", " ">>), issue>>)

\* action_messages.get(action, f"- {action} {member} on {repo}")
handle_member_event(event) ==
    LET repo == RepoName(event)
        action == Action(event)
        member == Get(Get(Payload(event), "member", EmptyDict),
                      "login", PyStr(<<"U", "n", "k", "n", "o", "w", "n">>))
        stmts == <<repo, action, member, Hashable(action)>>
    IN IF IsRaise(FirstRaise(stmts)) THEN Run(stmts, <<>>)
       ELSE IF PyEq(action, <<"a", "d", "d", "e", "d">>)
       THEN Run(<<>>, <<PyStr(<<"-", " ", "A", "d", "d", "e", "d", " ">>), member,
                        PyStr(<<" ", "a", "s", " ", "c", "o", "l", "l", "a", "b", "o", "r", "a", "t", "o", "r", " ", "t", "o", " ">>), repo>>)
       ELSE IF PyEq(action, <<"r", "e", "m", "o", "v", "e", "d">>)
       THEN Run(<<>>, <<PyStr(<<"-", " ", "R", "e", "m", "o", "v", "e", "d", " ">>), member, PyStr(<<" ", "f", "r", "o", "m", " ">>), repo>>)
       ELSE IF PyEq(action, <<"e", "d", "i", "t", "e", "d">>)
       THEN Run(<<>>, <<PyStr(<<"-", " ", "C", "h", "a", "n", "g", "e", "d", " ">>), member,
                        PyStr(<<"'", "s", " ", "p", "e", "r", "m", "i", "s", "s", "i", "o", "n", "s", " ", "o", "n", " ">>), repo>>)
       ELSE Run(<<>>, <<PyStr(<<"-", " ">>), action, PyStr(<<" ">>), member,
                        PyStr(<<" ", "o", "n", " ">>), repo>>)

handle_public_event(event) ==
    LET repo == RepoName(event)
    IN Run(<<repo>>, <<PyStr(<<"-", " ", "M", "a", "d", "e", " ">>), repo, PyStr(<<" ", "p", "u", "b", "l", "i", "c">>)>>)

\* .get("pull_request", "unknown") defaults to a str, which has no get
handle_pull_request_event(event) ==
    LET repo == RepoName(event)
        action == Action(event)
        pull_request == Get(Get(Payload(event), "pull_request", PyStr(<<"u", "n", "k", "n", "o", "w", "n">>)),
                            "title", PyStr(<<>>))
    IN Run(<<repo, action, pull_request>>,
           <<PyStr(<<"-", " ", "P", "u", "l", "l", " ", "r", "e", "q", "u", "e", "s", "t", " ">>), action, PyStr(<<" ", "o", "n", " ">>), repo,
             PyStr(<<":", " ">>), pull_request>>)

\* the printed line ends with a space
handle_pull_request_review_event(event) ==
    LET repo == RepoName(event)
        action == Action(event)
    IN Run(<<repo, action>>,
           <<PyStr(<<"-", " ">>), Capitalize(action), PyStr(<<" ", "P", "R", " ", "i", "n", " ">>), repo,
             PyStr(<<" ">>)>>)

handle_pull_request_review_comment_event(event) ==
    LET repo == RepoName(event)
        action == Action(event)
        comment_text == Slice(Get(Get(Payload(event), "comment", EmptyDict),
                                  "body", PyStr(<<>>)), 50)
        pr_title == Get(Get(Payload(event), "pull_request", EmptyDict),
                        "title", PyStr(<<>>))
    IN Run(<<repo, action, comment_text, pr_title>>,
           <<PyStr(<<"-", " ">>), Capitalize(action),
             PyStr(<<" ", "r", "e", "v", "i", "e", "w", " ", "c", "o", "m", "m", "e", "n", "t", " ", "o", "n", " ", "P", "R", " ", "'">>), pr_title, PyStr(<<"'", " ", "i", "n", " ">>),
             repo, PyStr(<<":", " ">>), comment_text>>)

\* .get("pull_request", "unknown") defaults to a str, which has no get
handle_pull_request_review_thread_event(event) ==
    LET repo == RepoName(event)
        action == Action(event)
        pull_request == Get(Get(Payload(event), "pull_request", PyStr(<<"u", "n", "k", "n", "o", "w", "n">>)),
                            "title", PyStr(<<>>))
    IN Run(<<repo, action, pull_request>>,
           <<PyStr(<<"-", " ">>), Capitalize(action),
             PyStr(<<" ", "r", "e", "v", "i", "e", "w", " ", "t", "h", "r", "e", "a", "d", " ", "o", "n", " ", "P", "R", " ", "'">>), pull_request, PyStr(<<"'", " ", "i", "n", " ">>),
             repo>>)

\* Variant of PluralS that tests commits > 1, so that 0 commits is singular.
PluralS_MoreThanOne(commits) ==
    IF IsRaise(commits) THEN commits
    ELSE IF commits.v > 1 THEN PyStr(<<"s">>) ELSE PyStr(<<>>)

\* "s" if commits != 1 else ""
PluralS(commits) ==
    IF IsRaise(commits) THEN commits
    ELSE IF commits.v # 1 THEN PyStr(<<"s">>) ELSE PyStr(<<>>)

handle_push_event(event) ==
    LET repo == RepoName(event)
        commits == PyLen(Get(Payload(event), "commits", EmptyList))
    IN Run(<<repo, commits>>,
           <<PyStr(<<"-", " ", "P", "u", "s", "h", "e", "d", " ">>), commits, PyStr(<<" ", "c", "o", "m", "m", "i", "t">>), PluralS(commits),
             PyStr(<<" ", "t", "o", " ">>), repo>>)

handle_release_event(event) ==
    LET repo == RepoName(event)
        action == Action(event)
        release == Get(Get(Payload(event), "release", EmptyDict),
                       "name", PyStr(<<>>))
    IN Run(<<repo, action, release>>,
           <<PyStr(<<"-", " ">>), Capitalize(action), PyStr(<<" ">>), release,
             PyStr(<<" ", "o", "f", " ">>), repo>>)

handle_sponsorship_event(event) ==
    LET action == Get(Payload(event), "action", PyStr(<<"u", "n", "k", "n", "o", "w", "n">>))
        sponsor == Get(Get(Get(Payload(event), "sponsorship", EmptyDict),
                           "sponsor", EmptyDict), "login", PyStr(<<"U", "n", "k", "n", "o", "w", "n">>))
        sponsorable == Get(Get(Get(Payload(event), "sponsorship", EmptyDict),
                               "sponsorable", EmptyDict),
                           "login", PyStr(<<"U", "n", "k", "n", "o", "w", "n">>))
        stmts == <<action, sponsor, sponsorable>>
    IN IF IsRaise(FirstRaise(stmts)) THEN Run(stmts, <<>>)
       ELSE IF PyEq(action, <<"c", "r", "e", "a", "t", "e", "d">>)
       THEN Run(<<>>, <<PyStr(<<"-", " ">>), sponsor,
                        PyStr(<<" ", "j", "u", "s", "t", " ", "s", "t", "a", "r", "t", "e", "d", " ", "s", "p", "o", "n", "s", "o", "r", "i", "n", "g", " ">>), sponsorable,
                        PyStr(<<"!">>)>>)
       ELSE IF PyEq(action, <<"c", "a", "n", "c", "e", "l", "l", "e", "d">>)
       THEN Run(<<>>, <<PyStr(<<"-", " ">>), sponsor,
                        PyStr(<<" ", "c", "a", "n", "c", "e", "l", "l", "e", "d", " ", "t", "h", "e", "i", "r", " ", "s", "p", "o", "n", "s", "o", "r", "s", "h", "i", "p", " ", "o", "f", " ">>), sponsorable>>)
       ELSE IF PyEq(action, <<"t", "i", "e", "r", "_", "c", "h", "a", "n", "g", "e", "d">>)
       THEN Run(<<>>, <<PyStr(<<"-", " ">>), sponsor,
                        PyStr(<<" ", "c", "h", "a", "n", "g", "e", "d", " ", "t", "h", "e", "i", "r", " ", "s", "p", "o", "n", "s", "o", "r", "s", "h", "i", "p", " ", "t", "i", "e", "r", " ", "f", "o", "r", " ">>),
                        sponsorable>>)
       ELSE Run(<<>>, <<PyStr(<<"-", " ">>), sponsor, PyStr(<<" ">>), action,
                        PyStr(<<" ", "s", "p", "o", "n", "s", "o", "r", "s", "h", "i", "p", " ", "o", "f", " ">>), sponsorable>>)

handle_watch_event(event) ==
    LET repo == RepoName(event)
    IN Run(<<repo>>, <<PyStr(<<"-", " ", "S", "t", "a", "r", "r", "e", "d", " ">>), repo>>)

---------------------------------------------------------------------------
(* The dispatch table and one turn of main's loop *)

get_event_handlers ==
    (<<"C", "o", "m", "m", "i", "t", "C", "o", "m", "m", "e", "n", "t", "E", "v", "e", "n", "t">> :> "handle_commit_comment_event")
 @@ (<<"C", "r", "e", "a", "t", "e", "E", "v", "e", "n", "t">> :> "handle_create_event")
 @@ (<<"D", "e", "l", "e", "t", "e", "E", "v", "e", "n", "t">> :> "handle_delete_event")
 @@ (<<"F", "o", "r", "k", "E", "v", "e", "n", "t">> :> "handle_fork_event")
 @@ (<<"G", "o", "l", "l", "u", "m", "E", "v", "e", "n", "t">> :> "handle_gollum_event")
 @@ (<<"I", "s", "s", "u", "e", "C", "o", "m", "m", "e", "n", "t", "E", "v", "e", "n", "t">> :> "handle_issue_comment_event")
 @@ (<<"I", "s", "s", "u", "e", "s", "E", "v", "e", "n", "t">> :> "handle_issues_event")
 @@ (<<"M", "e", "m", "b", "e", "r", "E", "v", "e", "n", "t">> :> "handle_member_event")
 @@ (<<"P", "u", "b", "l", "i", "c", "E", "v", "e", "n", "t">> :> "handle_public_event")
 @@ (<<"P", "u", "l", "l", "R", "e", "q", "u", "e", "s", "t", "E", "v", "e", "n", "t">> :> "handle_pull_request_event")
 @@ (<<"P", "u", "l", "l", "R", "e", "q", "u", "e", "s", "t", "R", "e", "v", "i", "e", "w", "E", "v", "e", "n", "t">> :> "handle_pull_request_review_event")
 @@ (<<"P", "u", "l", "l", "R", "e", "q", "u", "e", "s", "t", "R", "e", "v", "i", "e", "w", "C", "o", "m", "m", "e", "n", "t", "E", "v", "e", "n", "t">> :> "handle_pull_request_review_comment_event")
 @@ (<<"P", "u", "l", "l", "R", "e", "q", "u", "e", "s", "t", "R", "e", "v", "i", "e", "w", "T", "h", "r", "e", "a", "d", "E", "v", "e", "n", "t">> :> "handle_pull_request_review_thread_event")
 @@ (<<"P", "u", "s", "h", "E", "v", "e", "n", "t">> :> "handle_push_event")
 @@ (<<"R", "e", "l", "e", "a", "s", "e", "E", "v", "e", "n", "t">> :> "handle_release_event")
 @@ (<<"S", "p", "o", "n", "s", "o", "r", "s", "h", "i", "p", "E", "v", "e", "n", "t">> :> "handle_sponsorship_event")
 @@ (<<"W", "a", "t", "c", "h", "E", "v", "e", "n", "t">> :> "handle_watch_event")

\* event_handler(event)
Call(name, event) ==
    CASE name = "handle_commit_comment_event" -> handle_commit_comment_event(event)
      [] name = "handle_create_event" -> handle_create_event(event)
      [] name = "handle_delete_event" -> handle_delete_event(event)
      [] name = "handle_fork_event" -> handle_fork_event(event)
      [] name = "handle_gollum_event" -> handle_gollum_event(event)
      [] name = "handle_issue_comment_event" -> handle_issue_comment_event(event)
      [] name = "handle_issues_event" -> handle_issues_event(event)
      [] name = "handle_member_event" -> handle_member_event(event)
      [] name = "handle_public_event" -> handle_public_event(event)
      [] name = "handle_pull_request_event" -> handle_pull_request_event(event)
      [] name = "handle_pull_request_review_event" ->
           handle_pull_request_review_event(event)
      [] name = "handle_pull_request_review_comment_event" ->
           handle_pull_request_review_comment_event(event)
      [] name = "handle_pull_request_review_thread_event" ->
           handle_pull_request_review_thread_event(event)
      [] name = "handle_push_event" -> handle_push_event(event)
      [] name = "handle_release_event" -> handle_release_event(event)
      [] name = "handle_sponsorship_event" -> handle_sponsorship_event(event)
      [] name = "handle_watch_event" -> handle_watch_event(event)

\* Variant of HandlersGet that indexes the table, handlers[event_type]: a
\* tag that is not in the table raises KeyError.
HandlersGet_Index(event_type) ==
    LET key == Hashable(event_type)
    IN IF IsRaise(key) THEN key
       ELSE IF key.t = "str" /\ key.v \in DOMAIN get_event_handlers
       THEN PyFunc(get_event_handlers[key.v])
       ELSE Raise("KeyError", Str(key))

\* handlers.get(event_type): the handler, None, or the TypeError of a key
\* that cannot be hashed
HandlersGet(event_type) ==
    LET key == Hashable(event_type)
    IN IF IsRaise(key) THEN key
       ELSE IF key.t = "str" /\ key.v \in DOMAIN get_event_handlers
       THEN PyFunc(get_event_handlers[key.v])
       ELSE PyNone

\* the body of "for event in events"
MainStep(event) ==
    LET event_type == Get(event, "type", PyStr(<<>>))
        event_handler == HandlersGet(event_type)
    IN IF IsRaise(event_handler)
       THEN [lines |-> <<>>, exc |-> event_handler]
       ELSE IF event_handler.t = "func"
       THEN Call(event_handler.v, event)
       ELSE [lines |-> << <<"-", " ", "U", "n", "k", "n", "o", "w", "n", " ", "E", "v", "e", "n", "t">> >>, exc |-> NoExc]

---------------------------------------------------------------------------
(* The fetcher *)

\* f"https://api.github.com/users/{username}/events?per_page=30"
Endpoint(user) ==
    <<"h", "t", "t", "p", "s", ":", "/", "/", "a", "p", "i", ".", "g", "i", "t", "h", "u", "b", ".", "c", "o", "m", "/", "u", "s", "e", "r", "s", "/">> \o user \o <<"/", "e", "v", "e", "n", "t", "s", "?", "p", "e", "r", "_", "p", "a", "g", "e", "=", "3", "0">>

\* r.raise_for_status() raises HTTPError for a status from 400 to 599
RaisesForStatus(status) == 400 <= status /\ status < 600

\* str(err) of the HTTPError that raise_for_status() builds
HTTPErrorText(r, url) ==
    IntStr(r.status)
    \o (IF r.status < 500 THEN <<" ", "C", "l", "i", "e", "n", "t", " ", "E", "r", "r", "o", "r", ":", " ">> ELSE <<" ", "S", "e", "r", "v", "e", "r", " ", "E", "r", "r", "o", "r", ":", " ">>)
    \o r.reason \o <<" ", "f", "o", "r", " ", "u", "r", "l", ":", " ">> \o url

\* r.json(): the parsed body, or the decoder's exception
Json(body) ==
    IF body.t = "invalid"
    THEN Raise("JSONDecodeError", <<"E", "x", "p", "e", "c", "t", "i", "n", "g", " ", "v", "a", "l", "u", "e", ":", " ", "l", "i", "n", "e", " ", "1", " ", "c", "o", "l", "u", "m", "n", " ", "1", " ", "(", "c", "h", "a", "r", " ", "0", ")">>)
    ELSE body

\* Variant of get_response that tries the request a second time after a
\* ConnectionError.
get_response_Retry(endpoint, user, n) ==
    IF n.kind = "ConnectionError"
    THEN [calls |-> 2, ret |-> Raise("SystemExit", n.text)]
    ELSE IF n.kind = "RequestException"
    THEN [calls |-> 1, ret |-> Raise(n.cls, n.text)]
    ELSE IF RaisesForStatus(n.status)
    THEN IF n.status = 404
         THEN [calls |-> 1,
               ret |-> Raise("SystemExit", <<"U", "s", "e", "r", " ", "'">> \o user \o <<"'", " ", "n", "o", "t", " ", "f", "o", "u", "n", "d">>)]
         ELSE IF n.status = 403
         THEN [calls |-> 1,
               ret |-> Raise("SystemExit",
                             <<"R", "a", "t", "e", " ", "l", "i", "m", "i", "t", " ", "e", "x", "c", "e", "e", "d", "e", "d", " ", "o", "r", " ", "a", "c", "c", "e", "s", "s", " ", "f", "o", "r", "b", "i", "d", "d", "e", "n">>)]
         ELSE [calls |-> 1,
               ret |-> Raise("SystemExit", HTTPErrorText(n, endpoint))]
    ELSE [calls |-> 1, ret |-> Json(n.body)]

\* Variant of get_response without the 403 branch: a 403 ends the run with
\* the HTTPError's own text.
get_response_No403(endpoint, user, n) ==
    IF n.kind = "ConnectionError"
    THEN [calls |-> 1, ret |-> Raise("SystemExit", n.text)]
    ELSE IF n.kind = "RequestException"
    THEN [calls |-> 1, ret |-> Raise(n.cls, n.text)]
    ELSE IF RaisesForStatus(n.status)
    THEN IF n.status = 404
         THEN [calls |-> 1,
               ret |-> Raise("SystemExit", <<"U", "s", "e", "r", " ", "'">> \o user \o <<"'", " ", "n", "o", "t", " ", "f", "o", "u", "n", "d">>)]
         ELSE [calls |-> 1,
               ret |-> Raise("SystemExit", HTTPErrorText(n, endpoint))]
    ELSE [calls |-> 1, ret |-> Json(n.body)]

\* get_response: [calls, ret] where calls counts the requests.get calls made
\* and ret is the value returned or the exception raised.  n is what
\* requests.get meets: a ConnectionError with its text, another exception of
\* requests (no except clause catches it), or a response.
get_response(endpoint, user, n) ==
    IF n.kind = "ConnectionError"
    THEN [calls |-> 1, ret |-> Raise("SystemExit", n.text)]
    ELSE IF n.kind = "RequestException"
    THEN [calls |-> 1, ret |-> Raise(n.cls, n.text)]
    ELSE IF RaisesForStatus(n.status)
    THEN IF n.status = 404
         THEN [calls |-> 1,
               ret |-> Raise("SystemExit", <<"U", "s", "e", "r", " ", "'">> \o user \o <<"'", " ", "n", "o", "t", " ", "f", "o", "u", "n", "d">>)]
         ELSE IF n.status = 403
         THEN [calls |-> 1,
               ret |-> Raise("SystemExit",
                             <<"R", "a", "t", "e", " ", "l", "i", "m", "i", "t", " ", "e", "x", "c", "e", "e", "d", "e", "d", " ", "o", "r", " ", "a", "c", "c", "e", "s", "s", " ", "f", "o", "r", "b", "i", "d", "d", "e", "n">>)]
         ELSE [calls |-> 1,
               ret |-> Raise("SystemExit", HTTPErrorText(n, endpoint))]
    ELSE [calls |-> 1, ret |-> Json(n.body)]

---------------------------------------------------------------------------
(* What the network can answer *)

Usernames == { <<"o", "c", "t", "o", "c", "a", "t">>, <<"b", "o", "b">> }

ActionChars == {"a", "B"}

RECURSIVE StringsUpTo(_)
StringsUpTo(n) ==
    IF n = 0 THEN {<<>>}
    ELSE LET shorter == StringsUpTo(n - 1)
         IN shorter \cup {Append(s, c) : s \in shorter, c \in ActionChars}

\* payload.action: missing, null, or a verb
ActionOpts ==
    {Absent, PyNone} \cup {PyStr(s) : s \in StringsUpTo(MaxActionLen)}
    \cup {PyStr(<<"o", "p", "e", "n", "e", "d">>)}

RepoOpts ==
    {Absent, PyNone, EmptyDict, Dict(<< <<"name", PyStr(<<"a", "/", "b">>)>> >>)}

TitleOpts == {Absent, EmptyDict, Dict(<< <<"title", PyStr(<<"F", "i", "x", " ", "i", "t">>)>> >>)}

LongText == [k \in 1..51 |-> IF k % 2 = 1 THEN "x" ELSE "y"]

CommentOpts ==
    {Absent, EmptyDict,
     Dict(<< <<"body", PyStr(<<"L", "G", "T", "M">>)>>, <<"commit_id", PyStr(<<"0", "1", "2", "3", "4", "5", "6", "7", "8", "9">>)>> >>),
     Dict(<< <<"body", PyStr(LongText)>>, <<"commit_id", PyStr(<<"a", "b", "c">>)>> >>)}

LoginOpts == {Absent, EmptyDict, Dict(<< <<"login", PyStr(<<"b", "o", "b">>)>> >>)}

\* the payloads every event type is tried with
BasePayloads == {Absent, PyNone, EmptyDict}

Event(type, repo, payload) ==
    Dict(<< <<"type", type>>, <<"repo", repo>>, <<"payload", payload>> >>)

EventsOf(typeName, payloads) ==
    {Event(PyStr(typeName), repo, payload) :
        repo \in RepoOpts, payload \in BasePayloads \cup payloads}

RefPayloads ==
    {Dict(<< <<"ref_type", rt>>, <<"ref", ref>> >>) :
        rt \in {Absent, PyStr(<<"r", "e", "p", "o", "s", "i", "t", "o", "r", "y">>), PyStr(<<"b", "r", "a", "n", "c", "h">>), PyStr(<<"t", "a", "g">>)},
        ref \in {Absent, PyNone, PyStr(<<"m", "a", "i", "n">>)}}

PageOpts ==
    {PyNone, PyStr(<<"x">>)}
    \cup {Dict(<< <<"title", title>>, <<"action", action>> >>) :
             title \in {Absent, PyStr(<<"H", "o", "m", "e">>)}, action \in ActionOpts}

FewPageOpts ==
    {PyStr(<<"x">>),
     Dict(<< <<"title", PyStr(<<"H", "o", "m", "e">>)>>, <<"action", PyStr(<<"c", "r", "e", "a", "t", "e", "d">>)>> >>),
     Dict(<< <<"title", PyStr(<<"H", "o", "m", "e">>)>>, <<"action", PyNone>> >>),
     EmptyDict}

RECURSIVE SeqsUpTo(_, _)
SeqsUpTo(S, n) ==
    IF n = 0 THEN {<<>>}
    ELSE LET shorter == SeqsUpTo(S, n - 1)
         IN shorter \cup {Append(s, x) : s \in shorter, x \in S}

GollumPayloads ==
    {Dict(<< <<"pages", pages>> >>) :
        pages \in {PyNone}
                  \cup {PyList(<<page>>) : page \in PageOpts}
                  \cup {PyList(ps) : ps \in SeqsUpTo(FewPageOpts, MaxPages)}}

CommitsOpts ==
    {PyNone} \cup {PyList([k \in 1..n |-> EmptyDict]) : n \in 0..MaxCommits}

MemberActions ==
    {Absent, PyNone, PyStr(<<"a", "d", "d", "e", "d">>), PyStr(<<"r", "e", "m", "o", "v", "e", "d">>), PyStr(<<"e", "d", "i", "t", "e", "d">>),
     PyStr(<<"a", "B">>), EmptyList}

SponsorActions ==
    {Absent, PyNone, PyStr(<<"c", "r", "e", "a", "t", "e", "d">>), PyStr(<<"c", "a", "n", "c", "e", "l", "l", "e", "d">>),
     PyStr(<<"t", "i", "e", "r", "_", "c", "h", "a", "n", "g", "e", "d">>), PyStr(<<"a", "B">>)}

SponsorshipOpts ==
    {Absent, EmptyDict}
    \cup {Dict(<< <<"sponsor", s>>, <<"sponsorable", t>> >>) :
             s \in LoginOpts, t \in LoginOpts}

\* the event records a feed is made of
EventPool ==
    EventsOf(<<"C", "o", "m", "m", "i", "t", "C", "o", "m", "m", "e", "n", "t", "E", "v", "e", "n", "t">>,
             {Dict(<< <<"comment", c>> >>) : c \in CommentOpts})
    \cup EventsOf(<<"C", "r", "e", "a", "t", "e", "E", "v", "e", "n", "t">>, RefPayloads)
    \cup EventsOf(<<"D", "e", "l", "e", "t", "e", "E", "v", "e", "n", "t">>, RefPayloads)
    \cup EventsOf(<<"F", "o", "r", "k", "E", "v", "e", "n", "t">>, {})
    \cup EventsOf(<<"G", "o", "l", "l", "u", "m", "E", "v", "e", "n", "t">>, GollumPayloads)
    \cup EventsOf(<<"I", "s", "s", "u", "e", "C", "o", "m", "m", "e", "n", "t", "E", "v", "e", "n", "t">>,
                  {Dict(<< <<"action", a>>, <<"issue", t>>, <<"comment", c>> >>) :
                      a \in ActionOpts, t \in TitleOpts, c \in CommentOpts})
    \cup EventsOf(<<"I", "s", "s", "u", "e", "s", "E", "v", "e", "n", "t">>,
                  {Dict(<< <<"action", a>>, <<"issue", t>> >>) :
                      a \in ActionOpts, t \in TitleOpts})
    \cup EventsOf(<<"M", "e", "m", "b", "e", "r", "E", "v", "e", "n", "t">>,
                  {Dict(<< <<"action", a>>, <<"member", m>> >>) :
                      a \in MemberActions, m \in LoginOpts})
    \cup EventsOf(<<"P", "u", "b", "l", "i", "c", "E", "v", "e", "n", "t">>, {})
    \cup EventsOf(<<"P", "u", "l", "l", "R", "e", "q", "u", "e", "s", "t", "E", "v", "e", "n", "t">>,
                  {Dict(<< <<"action", a>>, <<"pull_request", t>> >>) :
                      a \in ActionOpts, t \in TitleOpts})
    \cup EventsOf(<<"P", "u", "l", "l", "R", "e", "q", "u", "e", "s", "t", "R", "e", "v", "i", "e", "w", "E", "v", "e", "n", "t">>,
                  {Dict(<< <<"action", a>> >>) : a \in ActionOpts})
    \cup EventsOf(<<"P", "u", "l", "l", "R", "e", "q", "u", "e", "s", "t", "R", "e", "v", "i", "e", "w", "C", "o", "m", "m", "e", "n", "t", "E", "v", "e", "n", "t">>,
                  {Dict(<< <<"action", a>>, <<"pull_request", t>>, <<"comment", c>> >>) :
                      a \in ActionOpts, t \in TitleOpts, c \in CommentOpts})
    \cup EventsOf(<<"P", "u", "l", "l", "R", "e", "q", "u", "e", "s", "t", "R", "e", "v", "i", "e", "w", "T", "h", "r", "e", "a", "d", "E", "v", "e", "n", "t">>,
                  {Dict(<< <<"action", a>>, <<"pull_request", t>> >>) :
                      a \in ActionOpts, t \in TitleOpts})
    \cup EventsOf(<<"P", "u", "s", "h", "E", "v", "e", "n", "t">>,
                  {Dict(<< <<"commits", c>> >>) : c \in CommitsOpts})
    \cup EventsOf(<<"R", "e", "l", "e", "a", "s", "e", "E", "v", "e", "n", "t">>,
                  {Dict(<< <<"action", a>>, <<"release", r>> >>) :
                      a \in ActionOpts,
                      r \in {Absent, EmptyDict,
                             Dict(<< <<"name", PyStr(<<"v", "1", ".", "0">>)>> >>)}})
    \cup EventsOf(<<"S", "p", "o", "n", "s", "o", "r", "s", "h", "i", "p", "E", "v", "e", "n", "t">>,
                  {Dict(<< <<"action", a>>, <<"sponsorship", s>> >>) :
                      a \in SponsorActions, s \in SponsorshipOpts})
    \cup EventsOf(<<"W", "a", "t", "c", "h", "E", "v", "e", "n", "t">>, {})
    \cup {Event(type, Dict(<< <<"name", PyStr(<<"a", "/", "b">>)>> >>), Absent) :
             type \in {Absent, PyNone, PyStr(<<>>), PyStr(<<"F", "o", "o", "E", "v", "e", "n", "t">>),
                       PyStr(<<"w", "a", "t", "c", "h", "e", "v", "e", "n", "t">>), EmptyList}}
    \cup {PyNone, PyStr(<<"x">>)}

\* the records of the feeds that hold several events
RunPool ==
    LET ab == Dict(<< <<"name", PyStr(<<"a", "/", "b">>)>> >>)
        page(action) == Dict(<< <<"title", PyStr(<<"H", "o", "m", "e">>)>>, <<"action", action>> >>)
    IN {Event(PyStr(<<"W", "a", "t", "c", "h", "E", "v", "e", "n", "t">>), ab, Absent),
        Event(PyStr(<<"P", "u", "s", "h", "E", "v", "e", "n", "t">>), ab, Dict(<< <<"commits", PyList(<<EmptyDict>>)>> >>)),
        Event(PyStr(<<"C", "r", "e", "a", "t", "e", "E", "v", "e", "n", "t">>), ab, Absent),
        Event(PyStr(<<"I", "s", "s", "u", "e", "s", "E", "v", "e", "n", "t">>), ab, Dict(<< <<"action", PyStr(<<"o", "p", "e", "n", "e", "d">>)>> >>)),
        Event(PyStr(<<"G", "o", "l", "l", "u", "m", "E", "v", "e", "n", "t">>), ab, Absent),
        Event(PyStr(<<"G", "o", "l", "l", "u", "m", "E", "v", "e", "n", "t">>), ab,
              Dict(<< <<"pages", PyList(<<page(PyStr(<<"c", "r", "e", "a", "t", "e", "d">>)),
                                          page(PyStr(<<"e", "d", "i", "t", "e", "d">>))>>)>> >>)),
        Event(PyStr(<<"G", "o", "l", "l", "u", "m", "E", "v", "e", "n", "t">>), ab,
              Dict(<< <<"pages", PyList(<<page(PyStr(<<"c", "r", "e", "a", "t", "e", "d">>)),
                                          page(PyNone)>>)>> >>)),
        Event(PyStr(<<"F", "o", "o", "E", "v", "e", "n", "t">>), ab, Absent),
        Event(Absent, Absent, Absent),
        PyNone}

\* the body of a response: text that is no JSON, or the JSON value it holds
Bodies ==
    {[t |-> "invalid"], PyNone, PyInt(5), EmptyDict, PyStr(<<>>), PyStr(<<"x">>),
     Dict(<< <<"m", PyStr(<<"N", "o", "t", " ", "F", "o", "u", "n", "d">>)>> >>)}
    \cup {PyList(<<e>>) : e \in EventPool}
    \cup {PyList(es) : es \in SeqsUpTo(RunPool, MaxEvents)}

Responses(body) ==
    {[kind |-> "Response", status |-> 200, reason |-> <<"O", "K">>, body |-> body],
     [kind |-> "Response", status |-> 304, reason |-> <<"N", "o", "t", " ", "M", "o", "d", "i", "f", "i", "e", "d">>, body |-> body],
     [kind |-> "Response", status |-> 403, reason |-> <<"F", "o", "r", "b", "i", "d", "d", "e", "n">>, body |-> body],
     [kind |-> "Response", status |-> 404, reason |-> <<"N", "o", "t", " ", "F", "o", "u", "n", "d">>, body |-> body],
     [kind |-> "Response", status |-> 500, reason |-> <<"I", "n", "t", "e", "r", "n", "a", "l", " ", "S", "e", "r", "v", "e", "r", " ", "E", "r", "r", "o", "r">>,
      body |-> body]}

ConnectionErrors ==
    {[kind |-> "ConnectionError", text |-> <<"C", "o", "n", "n", "e", "c", "t", "i", "o", "n", " ", "r", "e", "f", "u", "s", "e", "d">>]}

OtherRequestErrors ==
    {[kind |-> "RequestException", cls |-> "TooManyRedirects",
      text |-> <<"E", "x", "c", "e", "e", "d", "e", "d", " ", "3", "0", " ", "r", "e", "d", "i", "r", "e", "c", "t", "s", ".">>]}

NoAnswer == [kind |-> "none"]

---------------------------------------------------------------------------
(* The run of main() *)

Init ==
    /\ username \in Usernames
    /\ feed \in Bodies
    /\ pc = "start"
    /\ net = NoAnswer
    /\ events = PyNone
    /\ i = 0
    /\ output = <<>>
    /\ exitCode = -1
    /\ stderr = NoExc
    /\ netCalls = 0

\* An exception leaves main(): Python reports it on stderr (the message of a
\* SystemExit, the traceback of anything else) and the process exits with 1.
Die(exc) ==
    /\ pc' = "aborted"
    /\ exitCode' = 1
    /\ stderr' = exc

\* events = get_response(endpoint, username)
Fetch ==
    /\ pc = "start"
    /\ \E n \in ConnectionErrors \cup OtherRequestErrors \cup Responses(feed) :
         LET r == get_response(Endpoint(username), username, n)
         IN /\ net' = n
            /\ netCalls' = netCalls + r.calls
            /\ IF IsRaise(r.ret)
               THEN Die(r.ret) /\ UNCHANGED events
               ELSE /\ events' = r.ret
                    /\ pc' = "loop"
                    /\ UNCHANGED <<exitCode, stderr>>
    /\ UNCHANGED <<username, feed, i, output>>

\* "for event in events" over something that cannot be iterated
NotIterable ==
    /\ pc = "loop"
    /\ IsRaise(Iter(events))
    /\ Die(Iter(events))
    /\ UNCHANGED <<username, feed, net, events, i, output, netCalls>>

\* the lines a record printed, each with the position of the record
Printed(k, lines) == [j \in 1..Len(lines) |-> [rec |-> k, line |-> lines[j]]]

\* Variant of Dispatch that puts a record's lines before the lines printed
\* so far.
Dispatch_Prepend ==
    /\ pc = "loop"
    /\ ~IsRaise(Iter(events))
    /\ i < Len(Iter(events).v)
    /\ LET r == MainStep(Iter(events).v[i + 1])
       IN /\ output' = Printed(i + 1, r.lines) \o output
          /\ IF IsRaise(r.exc)
             THEN Die(r.exc) /\ UNCHANGED i
             ELSE i' = i + 1 /\ UNCHANGED <<pc, exitCode, stderr>>
    /\ UNCHANGED <<username, feed, net, events, netCalls>>

\* one turn of the loop, handler included
Dispatch ==
    /\ pc = "loop"
    /\ ~IsRaise(Iter(events))
    /\ i < Len(Iter(events).v)
    /\ LET r == MainStep(Iter(events).v[i + 1])
       IN /\ output' = output \o Printed(i + 1, r.lines)
          /\ IF IsRaise(r.exc)
             THEN Die(r.exc) /\ UNCHANGED i
             ELSE i' = i + 1 /\ UNCHANGED <<pc, exitCode, stderr>>
    /\ UNCHANGED <<username, feed, net, events, netCalls>>

\* the loop is over and main() returns
Finish ==
    /\ pc = "loop"
    /\ ~IsRaise(Iter(events))
    /\ i = Len(Iter(events).v)
    /\ pc' = "done"
    /\ exitCode' = 0
    /\ UNCHANGED <<username, feed, net, events, i, output, stderr, netCalls>>

Next == Fetch \/ NotIterable \/ Dispatch \/ Finish

Spec == Init /\ [][Next]_vars

---------------------------------------------------------------------------
(* Vocabulary of the properties *)

\* the fetched records, once get_response has returned a list
Records == IF events.t = "list" THEN events.v ELSE <<>>

\* the lines that record k printed, in the order printed
LinesOf(k) ==
    LET sel == SelectSeq(output, LAMBDA o : o.rec = k)
    IN [j \in 1..Len(sel) |-> sel[j].line]

\* the loop has finished record k
Processed(k) == k \in 1..Len(Records) /\ k <= i

\* the run ended in the turn of the loop that handled record k
Crashed(k) == pc = "aborted" /\ k \in 1..Len(Records) /\ k = i + 1

Reached(k) == Processed(k) \/ Crashed(k)

\* the 17 event types of the formatter table
SpecEventTypes ==
    { <<"C", "o", "m", "m", "i", "t", "C", "o", "m", "m", "e", "n", "t", "E", "v", "e", "n", "t">>, <<"C", "r", "e", "a", "t", "e", "E", "v", "e", "n", "t">>, <<"D", "e", "l", "e", "t", "e", "E", "v", "e", "n", "t">>, <<"F", "o", "r", "k", "E", "v", "e", "n", "t">>,
      <<"G", "o", "l", "l", "u", "m", "E", "v", "e", "n", "t">>, <<"I", "s", "s", "u", "e", "C", "o", "m", "m", "e", "n", "t", "E", "v", "e", "n", "t">>, <<"I", "s", "s", "u", "e", "s", "E", "v", "e", "n", "t">>, <<"M", "e", "m", "b", "e", "r", "E", "v", "e", "n", "t">>,
      <<"P", "u", "b", "l", "i", "c", "E", "v", "e", "n", "t">>, <<"P", "u", "l", "l", "R", "e", "q", "u", "e", "s", "t", "E", "v", "e", "n", "t">>, <<"P", "u", "l", "l", "R", "e", "q", "u", "e", "s", "t", "R", "e", "v", "i", "e", "w", "E", "v", "e", "n", "t">>,
      <<"P", "u", "l", "l", "R", "e", "q", "u", "e", "s", "t", "R", "e", "v", "i", "e", "w", "C", "o", "m", "m", "e", "n", "t", "E", "v", "e", "n", "t">>, <<"P", "u", "l", "l", "R", "e", "q", "u", "e", "s", "t", "R", "e", "v", "i", "e", "w", "T", "h", "r", "e", "a", "d", "E", "v", "e", "n", "t">>,
      <<"P", "u", "s", "h", "E", "v", "e", "n", "t">>, <<"R", "e", "l", "e", "a", "s", "e", "E", "v", "e", "n", "t">>, <<"S", "p", "o", "n", "s", "o", "r", "s", "h", "i", "p", "E", "v", "e", "n", "t">>, <<"W", "a", "t", "c", "h", "E", "v", "e", "n", "t">> }

Field(d, key) == IF key \in DOMAIN d.v THEN d.v[key] ELSE Absent

HasType(e, name) == e.t = "dict" /\ PyEq(Field(e, "type"), name)

KnownType(e) ==
    e.t = "dict" /\ Field(e, "type").t = "str" /\ Field(e, "type").v \in SpecEventTypes

\* the "type" is missing, null or a string that the table does not hold
UnknownType(e) ==
    /\ e.t = "dict"
    /\ Field(e, "type").t \in {"absent", "none", "str"}
    /\ ~KnownType(e)

StrKeys ==
    {"type", "name", "action", "ref_type", "ref", "title", "body", "commit_id", "login"}

DictKeys ==
    {"repo", "payload", "issue", "pull_request", "comment", "release", "member",
     "sponsorship", "sponsor", "sponsorable"}

ListKeys == {"commits", "pages"}

\* Every field that is present has the type the API gives it: whatever is
\* unusual about such a record is only that fields are missing.
RECURSIVE OnlyMissing(_)
OnlyMissing(x) ==
    /\ x.t = "dict"
    /\ \A key \in DOMAIN x.v :
         /\ key \in StrKeys \cup DictKeys \cup ListKeys
         /\ key \in StrKeys => x.v[key].t = "str"
         /\ key \in DictKeys => OnlyMissing(x.v[key])
         /\ key \in ListKeys =>
              /\ x.v[key].t = "list"
              /\ \A j \in 1..Len(x.v[key].v) : OnlyMissing(x.v[key].v[j])

\* the action verb of a record's payload, Absent when there is none
ActionOf(e) ==
    IF Field(e, "payload").t = "dict" THEN Field(Field(e, "payload"), "action")
    ELSE Absent

\* the pages of a GollumEvent: the list in payload.pages, empty when missing
PagesOf(e) ==
    IF Field(e, "payload").t = "dict" /\ Field(Field(e, "payload"), "pages").t = "list"
    THEN Field(Field(e, "payload"), "pages").v
    ELSE <<>>

\* nothing in the record makes the wiki formatter fail
GollumClean(e) ==
    /\ Field(e, "payload").t \in {"absent", "dict"}
    /\ Field(e, "payload").t = "dict" =>
         Field(Field(e, "payload"), "pages").t \in {"absent", "list"}
    /\ \A j \in 1..Len(PagesOf(e)) :
         PagesOf(e)[j].t = "dict" =>
            Field(PagesOf(e)[j], "action").t \in {"absent", "str"}

DictPages(e) == SelectSeq(PagesOf(e), LAMBDA p : p.t = "dict")

IsPrefix(p, s) == Len(p) <= Len(s) /\ SubSeq(s, 1, Len(p)) = p

\* repo.name, or "Unknown" when the repo or its name is missing
RepoOrUnknown(e) ==
    IF Field(e, "repo").t = "dict" /\ Field(Field(e, "repo"), "name").t = "str"
    THEN Field(Field(e, "repo"), "name").v
    ELSE <<"U", "n", "k", "n", "o", "w", "n">>

RepoMissingOrNamed(e) ==
    \/ Field(e, "repo").t = "absent"
    \/ /\ Field(e, "repo").t = "dict"
       /\ Field(Field(e, "repo"), "name").t \in {"absent", "str"}

TwoXX(status) == 200 <= status /\ status <= 299

\* the process ended inside get_response, with the given text on stderr
ExitedWith(text) ==
    /\ pc = "aborted"
    /\ IsRaise(stderr)
    /\ stderr.cls = "SystemExit"
    /\ stderr.v = text

---------------------------------------------------------------------------
(* C1: for each of the 17 formatters and every record whose tag selects   *)
(* it, a field that is missing is never fatal: the formatter returns and  *)
(* prints its line with the documented default.  Stated of every record   *)
(* in which fields are only missing (none has a wrong type).              *)
C1_MissingFieldNeverFatal ==
    \A k \in 1..Len(Records) :
        (Reached(k) /\ KnownType(Records[k]) /\ OnlyMissing(Records[k]))
            => ~Crashed(k)

(* C2: a malformed record never keeps the records after it from being     *)
(* processed: a run that fetched a list ends with every record handled.   *)
C2_NoRecordAbortsRun ==
    (pc \in {"done", "aborted"} /\ events.t = "list") => i = Len(events.v)

(* C3 as stated: after a successful fetch of N records the output has     *)
(* exactly N lines, more only where a GollumEvent has several pages; the   *)
(* lines are in the order of their records and every record contributes   *)
(* at least one.                                                           *)
C3_ExactlyNLines ==
    (pc = "done" /\ events.t = "list") =>
        /\ \A a, b \in 1..Len(output) : a < b => output[a].rec <= output[b].rec
        /\ \A k \in 1..Len(Records) : Len(LinesOf(k)) >= 1
        /\ \/ Len(output) = Len(Records)
           \/ /\ Len(output) > Len(Records)
              /\ \E k \in 1..Len(Records) :
                    HasType(Records[k], <<"G", "o", "l", "l", "u", "m", "E", "v", "e", "n", "t">>) /\ Len(LinesOf(k)) > 1

(* C3 as amended: the lines are in the order of their records and come    *)
(* only from records the loop has finished; a finished record contributes *)
(* exactly one line, except a GollumEvent, which contributes one line per *)
(* page that is an object (none when it has none) or, when its formatting *)
(* fails, at least the "Could not process" line; a run that completes has *)
(* finished all N records.                                                 *)
C3_OrderedLinesPerRecord ==
    events.t = "list" =>
        /\ \A a, b \in 1..Len(output) : a < b => output[a].rec <= output[b].rec
        /\ \A a \in 1..Len(output) : Processed(output[a].rec)
        /\ \A k \in 1..Len(Records) :
              Processed(k) =>
                 IF HasType(Records[k], <<"G", "o", "l", "l", "u", "m", "E", "v", "e", "n", "t">>)
                 THEN IF GollumClean(Records[k])
                      THEN Len(LinesOf(k)) = Len(DictPages(Records[k]))
                      ELSE Len(LinesOf(k)) >= 1
                 ELSE Len(LinesOf(k)) = 1
        /\ pc = "done" => i = Len(Records)

\* a completed run of two records in which a GollumEvent without pages
\* printed nothing and the record after it printed its line
C3_Witness ==
    /\ pc = "done"
    /\ Len(Records) = 2
    /\ HasType(Records[1], <<"G", "o", "l", "l", "u", "m", "E", "v", "e", "n", "t">>)
    /\ LinesOf(1) = <<>>
    /\ Len(LinesOf(2)) = 1

(* C4 as stated: get_response maps each answer to one result, in this     *)
(* order: a connection failure ends the run with the error's text; else   *)
(* 404 ends it with "User '<username>' not found"; else 403 with "Rate    *)
(* limit exceeded or access forbidden"; else any other status outside     *)
(* 200..299 ends it with the error's text; only a 2xx returns the parsed  *)
(* list.                                                                   *)
C4_AnyNon2xxTerminates ==
    pc # "start" =>
        /\ net.kind = "ConnectionError" => ExitedWith(net.text)
        /\ net.kind = "Response" =>
              IF net.status = 404
              THEN ExitedWith(<<"U", "s", "e", "r", " ", "'">> \o username \o <<"'", " ", "n", "o", "t", " ", "f", "o", "u", "n", "d">>)
              ELSE IF net.status = 403
              THEN ExitedWith(<<"R", "a", "t", "e", " ", "l", "i", "m", "i", "t", " ", "e", "x", "c", "e", "e", "d", "e", "d", " ", "o", "r", " ", "a", "c", "c", "e", "s", "s", " ", "f", "o", "r", "b", "i", "d", "d", "e", "n">>)
              ELSE IF ~TwoXX(net.status)
              THEN ExitedWith(HTTPErrorText(net, Endpoint(username)))
              ELSE net.body.t = "list" =>
                      /\ events = net.body
                      /\ ~(IsRaise(stderr) /\ stderr.cls = "SystemExit")

(* C4 as amended: the same mapping, where the fourth case is "any other   *)
(* status from 400 to 599" and the last is "every other status": a        *)
(* response below 400 (2xx, and a 304 as well) returns its parsed body.   *)
C4_FailureMapping ==
    pc # "start" =>
        /\ net.kind = "ConnectionError" => ExitedWith(net.text)
        /\ net.kind = "Response" =>
              IF net.status = 404
              THEN ExitedWith(<<"U", "s", "e", "r", " ", "'">> \o username \o <<"'", " ", "n", "o", "t", " ", "f", "o", "u", "n", "d">>)
              ELSE IF net.status = 403
              THEN ExitedWith(<<"R", "a", "t", "e", " ", "l", "i", "m", "i", "t", " ", "e", "x", "c", "e", "e", "d", "e", "d", " ", "o", "r", " ", "a", "c", "c", "e", "s", "s", " ", "f", "o", "r", "b", "i", "d", "d", "e", "n">>)
              ELSE IF 400 <= net.status /\ net.status <= 599
              THEN ExitedWith(HTTPErrorText(net, Endpoint(username)))
              ELSE net.body.t = "list" =>
                      /\ events = net.body
                      /\ ~(IsRaise(stderr) /\ stderr.cls = "SystemExit")

\* a 304 whose body is a list of two records was returned and formatted
C4_Witness ==
    /\ pc = "done"
    /\ net.kind = "Response"
    /\ net.status = 304
    /\ events = net.body
    /\ Len(Records) = 2
    /\ Len(output) >= 2

(* C5: a record whose type tag has no entry in the table of 17 (a record  *)
(* without "type" included) prints exactly "- Unknown Event" and nothing  *)
(* else, and a record whose tag is in the table never prints that line.   *)
(* The tag is a string, null or missing.                                   *)
C5_UnknownEventFallback ==
    \A k \in 1..Len(Records) :
        /\ (Reached(k) /\ UnknownType(Records[k])) =>
               (Processed(k) /\ LinesOf(k) = << <<"-", " ", "U", "n", "k", "n", "o", "w", "n", " ", "E", "v", "e", "n", "t">> >>)
        /\ (Reached(k) /\ KnownType(Records[k])) =>
               \A j \in 1..Len(LinesOf(k)) : LinesOf(k)[j] # <<"-", " ", "U", "n", "k", "n", "o", "w", "n", " ", "E", "v", "e", "n", "t">>

\* a record without "type" printed the fallback, then a WatchEvent its own line
C5_Witness ==
    /\ Processed(2)
    /\ Field(Records[1], "type") = Absent
    /\ LinesOf(1) = << <<"-", " ", "U", "n", "k", "n", "o", "w", "n", " ", "E", "v", "e", "n", "t">> >>
    /\ HasType(Records[2], <<"W", "a", "t", "c", "h", "E", "v", "e", "n", "t">>)
    /\ LinesOf(2) = << <<"-", " ", "S", "t", "a", "r", "r", "e", "d", " ", "a", "/", "b">> >>

(* C6: a run ends with exit code 0 when the fetch succeeded (a 2xx whose  *)
(* body is a JSON array, also an empty one or one of unknown types), and  *)
(* with a non-zero code on every fetcher error: connection failure, 404,  *)
(* 403, any other HTTP error, a 2xx whose body is not a JSON array.       *)
C6_ExitCodes ==
    pc \in {"done", "aborted"} =>
        IF net.kind = "Response" /\ TwoXX(net.status) /\ net.body.t = "list"
        THEN exitCode = 0
        ELSE exitCode # 0

(* C7: whatever the request's outcome, a run makes exactly one network    *)
(* call: a failed request is not retried and no request is made while     *)
(* the events are formatted.                                               *)
C7_OneNetworkCall ==
    /\ netCalls <= 1
    /\ pc # "start" => netCalls = 1

\* two events were formatted after the one call
C7_Witness == pc = "done" /\ i = 2 /\ Len(output) = 2 /\ netCalls = 1

\* the event types whose line starts with the capitalized action
CapitalizedTypes ==
    { <<"I", "s", "s", "u", "e", "C", "o", "m", "m", "e", "n", "t", "E", "v", "e", "n", "t">>, <<"I", "s", "s", "u", "e", "s", "E", "v", "e", "n", "t">>, <<"P", "u", "l", "l", "R", "e", "q", "u", "e", "s", "t", "R", "e", "v", "i", "e", "w", "E", "v", "e", "n", "t">>,
      <<"P", "u", "l", "l", "R", "e", "q", "u", "e", "s", "t", "R", "e", "v", "i", "e", "w", "C", "o", "m", "m", "e", "n", "t", "E", "v", "e", "n", "t">>, <<"P", "u", "l", "l", "R", "e", "q", "u", "e", "s", "t", "R", "e", "v", "i", "e", "w", "T", "h", "r", "e", "a", "d", "E", "v", "e", "n", "t">>,
      <<"R", "e", "l", "e", "a", "s", "e", "E", "v", "e", "n", "t">> }

\* the text of a line that follows "- ", as long as the verb
VerbOf(line, action) == SubSeq(line, 3, 2 + Len(action))

FirstUpperRestSame(s) ==
    [k \in 1..Len(s) |-> IF k = 1 THEN Upper(s[k]) ELSE s[k]]

FirstUpperRestLower(s) ==
    [k \in 1..Len(s) |-> IF k = 1 THEN Upper(s[k]) ELSE Lower(s[k])]

\* the verb as C8 states it (rest unchanged) or as amended (rest lowered)
ExpectedVerb(s, lowered) ==
    IF lowered THEN FirstUpperRestLower(s) ELSE FirstUpperRestSame(s)

\* every line printed for a record with a string action (for a GollumEvent:
\* for each of its pages) shows the verb as ExpectedVerb gives it
VerbsPrintedAs(lowered) ==
    \A k \in 1..Len(Records) :
        LET e == Records[k]
        IN /\ (Processed(k) /\ KnownType(e)
                 /\ Field(e, "type").v \in CapitalizedTypes
                 /\ ActionOf(e).t = "str") =>
                    /\ Len(LinesOf(k)) = 1
                    /\ IsPrefix(<<"-", " ">>, LinesOf(k)[1])
                    /\ VerbOf(LinesOf(k)[1], ActionOf(e).v)
                          = ExpectedVerb(ActionOf(e).v, lowered)
           /\ (Processed(k) /\ HasType(e, <<"G", "o", "l", "l", "u", "m", "E", "v", "e", "n", "t">>) /\ GollumClean(e)) =>
                 \A j \in 1..Len(DictPages(e)) :
                    Field(DictPages(e)[j], "action").t = "str" =>
                       /\ IsPrefix(<<"-", " ">>, LinesOf(k)[j])
                       /\ VerbOf(LinesOf(k)[j], Field(DictPages(e)[j], "action").v)
                            = ExpectedVerb(Field(DictPages(e)[j], "action").v, lowered)

(* C8 as stated: where a template shows the capitalized action, the verb  *)
(* printed is the action with its first letter upper-cased and every      *)
(* other character unchanged.                                              *)
C8_RestUnchanged == VerbsPrintedAs(FALSE)

(* C8 as amended: the verb printed is the action with its first letter    *)
(* upper-cased and every other letter lower-cased.                         *)
C8_RestLowered == VerbsPrintedAs(TRUE)

\* an IssuesEvent with action "aB" printed a line that starts "- Ab"
C8_Witness ==
    /\ Processed(1)
    /\ HasType(Records[1], <<"I", "s", "s", "u", "e", "s", "E", "v", "e", "n", "t">>)
    /\ ActionOf(Records[1]) = PyStr(<<"a", "B">>)
    /\ IsPrefix(<<"-", " ", "A", "b", " ", "i", "s", "s", "u", "e", " ", "i", "n", " ">>, LinesOf(1)[1])

(* C9: the GollumEvent formatter never ends the run: it prints one line   *)
(* per page that is an object (other entries are skipped, missing pages   *)
(* are the empty list), and when formatting fails it prints "- Could not  *)
(* process wiki event: <error text>" and returns.                          *)
C9_GollumNeverAborts ==
    \A k \in 1..Len(Records) :
        (Reached(k) /\ HasType(Records[k], <<"G", "o", "l", "l", "u", "m", "E", "v", "e", "n", "t">>)) =>
            /\ Processed(k)
            /\ IF GollumClean(Records[k])
               THEN /\ Len(LinesOf(k)) = Len(DictPages(Records[k]))
                    /\ \A j \in 1..Len(LinesOf(k)) :
                          ~IsPrefix(<<"-", " ", "C", "o", "u", "l", "d", " ", "n", "o", "t", " ", "p", "r", "o", "c", "e", "s", "s", " ", "w", "i", "k", "i", " ", "e", "v", "e", "n", "t", ":", " ">>, LinesOf(k)[j])
               ELSE /\ Len(LinesOf(k)) >= 1
                    /\ IsPrefix(<<"-", " ", "C", "o", "u", "l", "d", " ", "n", "o", "t", " ", "p", "r", "o", "c", "e", "s", "s", " ", "w", "i", "k", "i", " ", "e", "v", "e", "n", "t", ":", " ">>,
                                LinesOf(k)[Len(LinesOf(k))])

\* a GollumEvent whose second page has a null action printed the first
\* page's line, then the error line, and the loop went on
C9_Witness ==
    /\ Processed(1)
    /\ HasType(Records[1], <<"G", "o", "l", "l", "u", "m", "E", "v", "e", "n", "t">>)
    /\ Len(PagesOf(Records[1])) = 2
    /\ Len(LinesOf(1)) = 2
    /\ LinesOf(1)[2] = <<"-", " ", "C", "o", "u", "l", "d", " ", "n", "o", "t", " ", "p", "r", "o", "c", "e", "s", "s", " ", "w", "i", "k", "i", " ", "e", "v", "e", "n", "t", ":", " ", "'", "N", "o", "n", "e", "T", "y", "p", "e", "'", " ", "o", "b", "j", "e", "c", "t", " ", "h", "a", "s", " ", "n", "o", " ", "a", "t", "t", "r", "i", "b", "u", "t", "e", " ", "'", "c", "a", "p", "i", "t", "a", "l", "i", "z", "e", "'">>
    /\ pc # "aborted"

\* the number of commits of a PushEvent: 0 when payload or commits is missing
CommitsOf(e) ==
    IF Field(e, "payload").t = "dict" /\ Field(Field(e, "payload"), "commits").t = "list"
    THEN Len(Field(Field(e, "payload"), "commits").v)
    ELSE 0

(* C10: a PushEvent with N commits (0 when payload or commits is missing) *)
(* prints "- Pushed N commit to <repo>" when N = 1 and "- Pushed N        *)
(* commits to <repo>" for every other N, 0 included; <repo> is repo.name, *)
(* or "Unknown" when it is missing.                                        *)
C10_PushPlural ==
    \A k \in 1..Len(Records) :
        LET e == Records[k]
        IN (/\ Reached(k)
            /\ HasType(e, <<"P", "u", "s", "h", "E", "v", "e", "n", "t">>)
            /\ RepoMissingOrNamed(e)
            /\ Field(e, "payload").t \in {"absent", "dict"}
            /\ Field(e, "payload").t = "dict" =>
                  Field(Field(e, "payload"), "commits").t \in {"absent", "list"})
           => /\ Processed(k)
              /\ LinesOf(k) =
                   << <<"-", " ", "P", "u", "s", "h", "e", "d", " ">> \o IntStr(CommitsOf(e))
                      \o (IF CommitsOf(e) = 1 THEN <<" ", "c", "o", "m", "m", "i", "t", " ", "t", "o", " ">> ELSE <<" ", "c", "o", "m", "m", "i", "t", "s", " ", "t", "o", " ">>)
                      \o RepoOrUnknown(e) >>

\* a PushEvent without payload printed the plural form for 0 commits
C10_Witness ==
    /\ Processed(1)
    /\ HasType(Records[1], <<"P", "u", "s", "h", "E", "v", "e", "n", "t">>)
    /\ Field(Records[1], "payload") = Absent
    /\ LinesOf(1) = << <<"-", " ", "P", "u", "s", "h", "e", "d", " ", "0", " ", "c", "o", "m", "m", "i", "t", "s", " ", "t", "o", " ", "a", "/", "b">> >>

=============================================================================
